---- MODULE Spec2Model ----
(***************************************************************************)
(* Model of pysar/_readfile.py: the attribute reader (read_attributes and *)
(* the sidecar parsers), the flat-binary decoders and the dispatch reader  *)
(* read().  One call of a public function is one step; the state keeps the *)
(* file-system input of the call, its arguments and its outcome.           *)
(*                                                                         *)
(* The raster bytes are modelled by their position: element e of the file  *)
(* (in units of the decoder's element type) has the value e, so every cell *)
(* of a returned plane names the file element(s) it was decoded from.      *)
(* A Python outcome is a normal return or a raised exception, recorded by  *)
(* its type and the source line that raises it.  handles is the set of     *)
(* file and container handles the call opened that are open when it ends.  *)
(***************************************************************************)
EXTENDS Integers, Sequences, FiniteSets, TLC

VARIABLES pc, fn, fs, args, out, handles

vars == <<pc, fn, fs, args, out, handles>>

-----------------------------------------------------------------------------
(* Bounds *)

\* largest WIDTH / FILE_LENGTH of a raster
MaxDim == 2

\* largest number of top-level groups a container lists
MaxGroups == 2

-----------------------------------------------------------------------------
(* Small helpers standing for Python / numpy built-ins *)

Min(a, b) == IF a < b THEN a ELSE b

EmptyMap == [k \in {} |-> ""]

HasKey(m, k) == k \in DOMAIN m

\* dict update: the entries of new replace those of old
Update(old, new) == new @@ old

\* str(n) of a non-negative integer
Str(n) == ToString(n)

\* the numbers a dimension string of the model can denote
NumRange == 0..(2 * MaxDim + 2)

IsNum(s) == \E n \in NumRange : Str(n) = s

\* int(float(s))
IntOf(s) == CHOOSE n \in NumRange : Str(n) = s

\* membership of a sequence ("x in list")
InSeq(x, s) == \E i \in 1..Len(s) : s[i] = x

\* sorted(names)[0] for the epoch labels of the model
EpochOrder == <<"e1", "e2", "e3">>

SortedFirst(S) == EpochOrder[CHOOSE i \in 1..Len(EpochOrder) :
                      /\ EpochOrder[i] \in S
                      /\ \A j \in 1..(i - 1) : EpochOrder[j] \notin S]

-----------------------------------------------------------------------------
(* Outcomes *)

NoPlanes == <<>>

Raise(etype, line) ==
    [status |-> "raise", etype |-> etype, line |-> line,
     atr |-> EmptyMap, planes |-> NoPlanes]

\* a normal return of an attribute mapping and zero or more planes
Return(atr, planes) ==
    [status |-> "return", etype |-> "", line |-> 0,
     atr |-> atr, planes |-> planes]

\* a normal return of a value that is no (data, atr) tuple: 0 or None
ReturnBare(what, line) ==
    [status |-> what, etype |-> "", line |-> line,
     atr |-> EmptyMap, planes |-> NoPlanes]

NoOut == ReturnBare("idle", 0)

Ok(r) == r.status = "return"

-----------------------------------------------------------------------------
(* Sidecar and container contents of the file system of one call *)

DimKeys(fs0, wkey, lkey) ==
    IF fs0.dimKeys THEN (wkey :> Str(fs0.W)) @@ (lkey :> Str(fs0.L))
    ELSE EmptyMap

SideUnit(fs0) == IF fs0.sideUnit THEN ("UNIT" :> "bogus") ELSE EmptyMap

\* rows of <path>.rsc: key value
RscRows(fs0) ==
    DimKeys(fs0, "WIDTH", "FILE_LENGTH") @@ SideUnit(fs0)
        @@ ("HEADING" :> "12") @@ ("WAVELENGTH" :> "5")

\* property nodes of <path>.xml
XmlProps(fs0) ==
    DimKeys(fs0, "width", "length") @@ SideUnit(fs0) @@ ("family" :> "image")

\* attribute set attached to the selected container group / its first member
ContainerAttrs(fs0) ==
    DimKeys(fs0, "WIDTH", "FILE_LENGTH") @@ SideUnit(fs0)
        @@ (IF fs0.refDate THEN ("ref_date" :> "e0") ELSE EmptyMap)

\* lines of a .par file, each line the list of its whitespace-separated tokens
\* parForm tells how the file is written: "full", without one of the two
\* dimension lines, with the keys spelled without a colon ("bare"), or
\* with the first header line only ("short")
ParLines(fs0) ==
    IF fs0.parForm = "short" THEN << <<"Gamma", "header">> >>
    ELSE
    <<  <<"Gamma", "header">>, <<"title:", "x">> >>
    \o (IF fs0.dimKeys /\ fs0.parForm \in {"full", "no_lines"}
        THEN << <<"range_samples:", Str(fs0.W)>> >>
        ELSE << >>)
    \o (IF fs0.dimKeys /\ fs0.parForm \in {"full", "no_samples"}
        THEN << <<"azimuth_lines:", Str(fs0.L) \o "#n">> >>
        ELSE << >>)
    \o (IF fs0.dimKeys /\ fs0.parForm = "bare"
        THEN << <<"range_samples", Str(fs0.W)>>,
                <<"azimuth_lines", Str(fs0.L) \o "#n">> >>
        ELSE << >>)
    \o << <<"#", "note", "x">>, <<"solo">>, <<"sensor:", "ERS", "2">> >>
    \o (IF fs0.sideUnit THEN << <<"UNIT", "bogus">> >> ELSE << >>)

-----------------------------------------------------------------------------
(* Attribute parsers *)

\* read_roipac_rsc: dict(np.loadtxt(File, dtype=str))
read_roipac_rsc(fs0) == Return(RscRows(fs0), NoPlanes)

\* line.startswith('%') or line.startswith('#')
StartsWithComment(line) ==
    Len(line) > 0 /\ line[1] \in {"#", "%"}

\* a slip of the value: the comment suffix is kept
BeforeHashKept(tok) == tok

\* token.split("#")[0]
BeforeHash(tok) ==
    IF \E n \in NumRange : tok = Str(n) \o "#n"
    THEN Str(CHOOSE n \in NumRange : tok = Str(n) \o "#n")
    ELSE tok

RECURSIVE ParDict(_, _, _)
ParDict(lines, i, d) ==
    IF i > Len(lines) THEN d
    ELSE LET l == lines[i] IN
         IF Len(l) < 2 \/ StartsWithComment(l)
         THEN ParDict(lines, i + 1, d)
         ELSE ParDict(lines, i + 1, Update(d, l[1] :> BeforeHash(l[2])))

read_gamma_par(fs0) ==
    LET lines == ParLines(fs0) IN
    IF Len(lines) < 2 THEN Raise("StopIteration", 161)
    ELSE LET d == ParDict(lines, 3, EmptyMap) IN
         IF ~HasKey(d, "range_samples:") THEN Raise("KeyError", 169)
         ELSE IF ~HasKey(d, "azimuth_lines:") THEN Raise("KeyError", 170)
         ELSE Return(Update(d, ("WIDTH" :> d["range_samples:"])
                               @@ ("FILE_LENGTH" :> d["azimuth_lines:"])),
                     NoPlanes)

read_isce_xml(fs0) ==
    LET d == XmlProps(fs0) IN
    IF ~HasKey(d, "width") THEN Raise("KeyError", 188)
    ELSE IF ~HasKey(d, "length") THEN Raise("KeyError", 189)
    ELSE Return(Update(d, ("WIDTH" :> d["width"])
                          @@ ("FILE_LENGTH" :> d["length"])),
                NoPlanes)

-----------------------------------------------------------------------------
(* read_attributes *)

\* str.lower() on the extensions of the model
Lower(e) == IF e = ".UNW" THEN ".unw" ELSE IF e = ".H5" THEN ".h5" ELSE e

\* os.path.splitext(File)[1].lower()
Ext(fs0) == Lower(fs0.ext)

ContainerExts == {".h5", ".he5"}

MemberGroups == {"interferograms", "coherence", "wrapped"}

SingleGroups == {"dem", "velocity", "mask", "temporal_coherence", "rmse",
                 "timeseries"}

\* a slip of the preference: coherence is tested before interferograms
SelectGroupCoherenceFirst(k) ==
    IF InSeq("coherence", k) THEN "coherence"
    ELSE IF InSeq("interferograms", k) THEN "interferograms"
    ELSE IF InSeq("timeseries", k) THEN "timeseries"
    ELSE k[1]

\* k[0] after the preference assignments of lines 61-63
SelectGroup(k) ==
    IF InSeq("interferograms", k) THEN "interferograms"
    ELSE IF InSeq("coherence", k) THEN "coherence"
    ELSE IF InSeq("timeseries", k) THEN "timeseries"
    ELSE k[1]

\* lines 108-115
UnitOf(atr) ==
    IF atr["FILE_TYPE"] \in {"interferograms", "wrapped", ".unw", ".int", ".flat"}
    THEN "radian"
    ELSE IF atr["FILE_TYPE"] \in {"timeseries", "dem", ".dem", ".hgt"}
    THEN "m"
    ELSE IF atr["FILE_TYPE"] \in {"velocity"}
    THEN "m/yr"
    ELSE "1"

\* a slip of the unit step: a UNIT the metadata supplies is kept
WithUnitKept(atr) ==
    IF HasKey(atr, "UNIT") THEN Return(atr, NoPlanes)
    ELSE Return(Update(atr, "UNIT" :> UnitOf(atr)), NoPlanes)

\* lines 107-117
WithUnit(atr) == Return(Update(atr, "UNIT" :> UnitOf(atr)), NoPlanes)

\* lines 58-79
ContainerAttributes(fs0) ==
    LET k == fs0.groups IN
    IF Len(k) = 0 THEN Raise("IndexError", 64)
    ELSE LET k0 == SelectGroup(k) IN
         IF k0 \in MemberGroups /\ fs0.epochs = {} THEN Raise("IndexError", 65)
         ELSE IF k0 \notin MemberGroups \cup SingleGroups
         THEN Raise("NameError", 71)
         ELSE LET atr == Update(ContainerAttrs(fs0),
                                ("PROCESSOR" :> "pysar") @@ ("FILE_TYPE" :> k0))
              IN IF k0 = "timeseries" /\ ~HasKey(atr, "ref_date")
                 THEN IF fs0.epochs = {} THEN Raise("IndexError", 77)
                      ELSE WithUnit(Update(atr,
                               "ref_date" :> SortedFirst(fs0.epochs)))
                 ELSE WithUnit(atr)

\* lines 81-103: one sidecar branch
Tagged(parsed, processor, ext) ==
    IF ~Ok(parsed) THEN parsed
    ELSE WithUnit(Update(parsed.atr,
                         ("PROCESSOR" :> processor) @@ ("FILE_TYPE" :> ext)))

\* a slip of the probe order: <path>.xml probed before <path>.rsc
SchemeXmlFirst(fs0) ==
    IF Ext(fs0) \in ContainerExts THEN "container"
    ELSE IF fs0.xml THEN "xml"
    ELSE IF fs0.rsc THEN "rsc"
    ELSE IF fs0.par THEN "par"
    ELSE IF fs0.stempar THEN "stempar"
    ELSE "none"

\* the branch of lines 58-105 that the call takes
Scheme(fs0) ==
    IF Ext(fs0) \in ContainerExts THEN "container"
    ELSE IF fs0.rsc THEN "rsc"
    ELSE IF fs0.xml THEN "xml"
    ELSE IF fs0.par THEN "par"
    ELSE IF fs0.stempar THEN "stempar"
    ELSE "none"

read_attributes(fs0) ==
    IF ~fs0.exists THEN Raise("SystemExit", 55)
    ELSE IF Scheme(fs0) = "container" THEN ContainerAttributes(fs0)
    ELSE IF Scheme(fs0) = "rsc"
    THEN Tagged(read_roipac_rsc(fs0), "roipac", Ext(fs0))
    ELSE IF Scheme(fs0) = "xml"
    THEN Tagged(read_isce_xml(fs0), "isce", Ext(fs0))
    ELSE IF Scheme(fs0) = "par"
    THEN Tagged(read_gamma_par(fs0), "gamma", Ext(fs0))
    ELSE IF Scheme(fs0) = "stempar"
    THEN Tagged(read_gamma_par(fs0), "gamma", Ext(fs0))
    ELSE Raise("SystemExit", 105)

-----------------------------------------------------------------------------
(* numpy arrays: a 2-D array is a sequence of rows of equal length *)

\* the empty tuple that stands for "no box"
NoBox == << >>

\* a slip of the read: a short file is taken to yield all count elements
FromFilePadded(nbytes, esize, count) ==
    IF count = -1 THEN nbytes \div esize ELSE count

\* np.fromfile(File, dtype, count): the number of elements read;
\* count = -1 reads the whole file, a short file yields fewer elements
FromFile(nbytes, esize, count) ==
    LET avail == nbytes \div esize IN
    IF count = -1 THEN avail ELSE Min(count, avail)

\* the elements 0 .. r*c-1 in row-major order: reshape(r, c)
Grid(r, c) == [i \in 1..r |-> [j \in 1..c |-> (i - 1) * c + (j - 1)]]

Rows(a) == Len(a)

Cols(a) == IF Len(a) = 0 THEN 0 ELSE Len(a[1])

\* s[lo:hi] for 0 <= lo, 0 <= hi: numpy clamps both ends to the length
Cut(s, lo, hi) == SubSeq(s, Min(lo, Len(s)) + 1, Min(hi, Len(s)))

\* a[y0:y1, x0:x1]
Slice(a, y0, y1, x0, x1) ==
    LET rows == Cut(a, y0, y1) IN
    [i \in 1..Len(rows) |-> Cut(rows[i], x0, x1)]

\* element p (0-based) of a.reshape(rows*cols, 1)
FlatAt(a, p) == a[(p \div Cols(a)) + 1][(p % Cols(a)) + 1]

\* a returned plane; every cell is the tuple of the file elements it is
\* decoded from: one for a real or complex64 sample, two for an int16 pair
Plane(kind, src, a) == [kind |-> kind, src |-> src, a |-> a]

\* the cells of a plane of one-element samples
Samples(a) == [i \in 1..Len(a) |-> [j \in 1..Len(a[i]) |-> << a[i][j] >>]]

SlicePlane(p, box) ==
    Plane(p.kind, p.src, Slice(p.a, box[2], box[4], box[1], box[3]))

-----------------------------------------------------------------------------
(* Flat-binary decoders.  box = NoBox is the call with one argument. *)

\* lines 232-234 and their copies: atr, width, length or the exception
Dimensions(r, wline) ==
    IF ~Ok(r) THEN r
    ELSE IF ~HasKey(r.atr, "WIDTH") THEN Raise("KeyError", wline)
    ELSE IF ~IsNum(r.atr["WIDTH"]) THEN Raise("ValueError", wline)
    ELSE IF ~HasKey(r.atr, "FILE_LENGTH") THEN Raise("KeyError", wline + 1)
    ELSE IF ~IsNum(r.atr["FILE_LENGTH"]) THEN Raise("ValueError", wline + 1)
    ELSE r

\* atr = read_attributes(File) followed by the two conversions
Header(fs0, wline) == Dimensions(read_attributes(fs0), wline)

\* the body of read_float32 after its header lines
float32_planes(h, nbytes, box) ==
    IF ~Ok(h) THEN h
    ELSE
    LET width  == IntOf(h.atr["WIDTH"])
        length == IntOf(h.atr["FILE_LENGTH"])
        b      == IF box = NoBox THEN <<0, 0, width, length>> ELSE box
        n      == FromFile(nbytes, 4, b[4] * 2 * width)
    IN  IF n # b[4] * 2 * width THEN Raise("ValueError", 240)
        ELSE LET data == Grid(b[4], 2 * width) IN
             Return(h.atr,
                 << Plane("float32", "file",
                        Samples(Slice(data, b[2], b[4], b[1], b[3]))),
                    Plane("float32", "file",
                        Samples(Slice(data, b[2], b[4],
                                      width + b[1], width + b[3]))) >>)

read_float32(fs0, box) == float32_planes(Header(fs0, 233), fs0.nbytes, box)

\* the body of read_complex_float32 after its header lines
complex_float32_planes(h, nbytes, real_imag) ==
    IF ~Ok(h) THEN h
    ELSE
    LET width  == IntOf(h.atr["WIDTH"])
        length == IntOf(h.atr["FILE_LENGTH"])
        n      == FromFile(nbytes, 8, length * width)
    IN  IF n # length * width THEN Raise("ValueError", 275)
        ELSE LET data == Samples(Grid(length, width)) IN
             IF real_imag = 0
             THEN Return(h.atr, << Plane("hypot", "file", data),
                                   Plane("arctan2", "file", data) >>)
             ELSE Return(h.atr, << Plane("complex64", "file", data) >>)

read_complex_float32(fs0, real_imag) ==
    complex_float32_planes(Header(fs0, 271), fs0.nbytes, real_imag)

\* the body of read_real_float32 after its header lines
real_float32_planes(h, nbytes) ==
    IF ~Ok(h) THEN h
    ELSE
    LET width  == IntOf(h.atr["WIDTH"])
        length == IntOf(h.atr["FILE_LENGTH"])
        n      == FromFile(nbytes, 4, -1)
    IN  IF n # length * width THEN Raise("ValueError", 295)
        ELSE Return(h.atr,
                 << Plane("float32", "file", Samples(Grid(length, width))) >>)

read_real_float32(fs0) == real_float32_planes(Header(fs0, 292), fs0.nbytes)

\* the body of read_complex_int16 after its header lines
complex_int16_planes(h, nbytes, box) ==
    IF ~Ok(h) THEN h
    ELSE
    LET width  == IntOf(h.atr["WIDTH"])
        length == IntOf(h.atr["FILE_LENGTH"])
        b      == IF box = NoBox THEN <<0, 0, width, length>> ELSE box
        nlines == b[4] - b[2]
        WIDTH  == b[3] - b[1]
        n      == FromFile(nbytes, 2, b[4] * 2 * width)
    IN  IF n # b[4] * 2 * width THEN Raise("ValueError", 321)
        ELSE LET data == Slice(Grid(b[4], 2 * width),
                               b[2], b[4], 2 * b[1], 2 * b[3])
             IN IF Rows(data) * Cols(data) # 2 * nlines * WIDTH
                THEN Raise("ValueError", 322)
                ELSE Return(h.atr,
                       << Plane("complex_int16", "file",
                            [i \in 1..nlines |-> [j \in 1..WIDTH |->
                               << FlatAt(data, 2 * ((i - 1) * WIDTH + (j - 1))),
                                  FlatAt(data, 2 * ((i - 1) * WIDTH + (j - 1)) + 1)
                               >> ]]) >>)

read_complex_int16(fs0, box) ==
    complex_int16_planes(Header(fs0, 312), fs0.nbytes, box)

\* the body of read_real_int16 after its header lines
real_int16_planes(h, nbytes) ==
    IF ~Ok(h) THEN h
    ELSE
    LET width  == IntOf(h.atr["WIDTH"])
        length == IntOf(h.atr["FILE_LENGTH"])
        n      == FromFile(nbytes, 2, -1)
    IN  IF n # length * width THEN Raise("ValueError", 354)
        ELSE Return(h.atr,
                 << Plane("int16", "file", Samples(Grid(length, width))) >>)

read_real_int16(fs0) == real_int16_planes(Header(fs0, 352), fs0.nbytes)

-----------------------------------------------------------------------------
(* read *)

ImageExts == {".jpeg", ".jpg", ".png", ".ras", ".bmp"}

EpochGroups == {"interferograms", "coherence", "wrapped", "timeseries"}

\* subset.subset_attributes(atr, box): the attributes of the cropped extent
subset_attributes(atr, box) ==
    Update(atr, ("WIDTH" :> Str(box[3] - box[1]))
                @@ ("FILE_LENGTH" :> Str(box[4] - box[2])))

\* lines 407-412; subsetBound tells whether the global name subset, which
\* the module never imports, is bound when line 412 looks it up
UpdateIfSubset(r, box, subsetBound) ==
    IF box = NoBox THEN r
    ELSE IF ~HasKey(r.atr, "WIDTH") THEN Raise("KeyError", 409)
    ELSE IF ~IsNum(r.atr["WIDTH"]) THEN Raise("ValueError", 409)
    ELSE IF ~HasKey(r.atr, "FILE_LENGTH") THEN Raise("KeyError", 410)
    ELSE IF ~IsNum(r.atr["FILE_LENGTH"]) THEN Raise("ValueError", 410)
    ELSE IF (box[3] - box[1]) * (box[4] - box[2])
              < IntOf(r.atr["WIDTH"]) * IntOf(r.atr["FILE_LENGTH"])
         THEN IF subsetBound
              THEN Return(subset_attributes(r.atr, box), NoPlanes)
              ELSE Raise("NameError", 412)
         ELSE r

\* the dataset of the container stored under a name
Dataset(fs0, name) == Plane("dataset", name, Samples(Grid(fs0.L, fs0.W)))

\* if box: data = data[box[1]:box[3], box[0]:box[2]]
Crop(p, box) == IF box = NoBox THEN p ELSE SlicePlane(p, box)

\* lines 414-446
ReadContainer(fs0, atr, box, epoch) ==
    LET k == atr["FILE_TYPE"]
        cropLine == IF box = NoBox THEN 443 ELSE 441
    IN  IF k \in EpochGroups
        THEN IF k = "timeseries"
             THEN IF epoch \in fs0.epochs
                  THEN Return(atr, << Crop(Dataset(fs0, epoch), box) >>)
                  ELSE Raise("TypeError", cropLine)
             ELSE IF epoch \in fs0.epochs
                  THEN Return(atr, << Crop(Dataset(fs0, epoch), box) >>)
                  ELSE Raise("KeyError", 433)
        ELSE IF k \in {"dem", "mask", "rmse", "temporal_coherence", "velocity"}
        THEN Return(atr, << Crop(Dataset(fs0, k), box) >>)
        ELSE Raise("NameError", cropLine)

\* Image.open(File) and Image.crop(box): the crop has the size of the box,
\* pixels outside the image are filled (-1)
ImagePlane(fs0, box) ==
    LET b == IF box = NoBox THEN <<0, 0, fs0.W, fs0.L>> ELSE box IN
    Plane("image", "file",
          [i \in 1..(b[4] - b[2]) |-> [j \in 1..(b[3] - b[1]) |->
              IF b[2] + i <= fs0.L /\ b[1] + j <= fs0.W
              THEN << (b[2] + i - 1) * fs0.W + (b[1] + j - 1) >>
              ELSE << -1 >>]])

\* lines 448-453
ReadImage(fs0, box) ==
    IF ~fs0.rsc THEN Raise("IOError", 450)
    ELSE Return(read_roipac_rsc(fs0).atr, << ImagePlane(fs0, box) >>)

\* data, atr = decoder(File) and the crop of lines 468, 483, 507, 515
CropFirst(d, box) ==
    IF ~Ok(d) THEN d ELSE Return(d.atr, << Crop(d.planes[1], box) >>)

\* amp, data, atr = decoder(File) and the crop of lines 468, 498
CropSecond(d, box) ==
    IF ~Ok(d) THEN d ELSE Return(d.atr, << Crop(d.planes[2], box) >>)

\* a slip of line 458: the first plane (amplitude) is taken as data
IsceFlatAmplitude(fs0, box) == CropFirst(read_complex_float32(fs0, 0), box)

\* lines 458, 468-469: amp, data, atr = read_complex_float32(File)
IsceFlat(fs0, box) == CropSecond(read_complex_float32(fs0, 0), box)

\* a slip of the final branches: the message is printed and the call falls
\* off the end of read
UnsupportedSilent(line) == ReturnBare("zero", line)

\* lines 466 and 520: print 'Un-supported '+processfor+...; the name
\* processfor is bound nowhere, so building the message raises
Unsupported(line) == Raise("NameError", line)

\* lines 455-469
ReadIsce(fs0, ext, box) ==
    IF ext \in {".flat"}
    THEN IsceFlat(fs0, box)
    ELSE IF ext \in {".cor"}
    THEN CropFirst(read_real_float32(fs0), box)
    ELSE IF ext \in {".slc"}
    THEN CropFirst(read_complex_float32(fs0, 0), box)
    ELSE Unsupported(466)

\* amp, pha, atr = read_float32(File, box); return pha, atr
SecondOnly(d) == IF ~Ok(d) THEN d ELSE Return(d.atr, << d.planes[2] >>)

\* a slip of line 478: both planes of the pair are returned
RmgBoth(fs0, box) == read_float32(fs0, box)

\* lines 473-478: amp, pha, atr = read_float32(...); return pha, atr
RmgPhase(fs0, box) == SecondOnly(read_float32(fs0, box))

\* lines 471-520
ReadRoipac(fs0, ext, box) ==
    IF ext \in {".unw", ".cor", ".hgt"}
    THEN RmgPhase(fs0, box)
    ELSE IF ext = ".dem"
    THEN CropFirst(read_real_int16(fs0), box)
    ELSE IF ext = ".int"
    THEN CropSecond(read_complex_float32(fs0, 0), box)
    ELSE IF ext = ".trans"
    THEN read_float32(fs0, box)
    ELSE IF ext = ".mli"
    THEN CropFirst(read_real_float32(fs0), box)
    ELSE IF ext = ".slc"
    THEN read_complex_int16(fs0, box)
    ELSE Unsupported(520)

\* a slip of line 471: the branch of line 501 (elif processor == 'gamma')
\* is live, so a gamma file is decoded as .mli or .slc only
DispatchGammaApart(fs0, atr, box, epoch) ==
    LET ext == Ext(fs0)
        processor == atr["PROCESSOR"]
    IN  IF ext \in ContainerExts THEN ReadContainer(fs0, atr, box, epoch)
        ELSE IF ext \in ImageExts THEN ReadImage(fs0, box)
        ELSE IF processor = "isce" THEN ReadIsce(fs0, ext, box)
        ELSE IF processor = "roipac" THEN ReadRoipac(fs0, ext, box)
        ELSE IF processor = "gamma" /\ ext \in {".mli", ".slc"}
        THEN ReadRoipac(fs0, ext, box)
        ELSE Unsupported(520)

\* lines 414-521
Dispatch(fs0, atr, box, epoch) ==
    LET ext == Ext(fs0)
        processor == atr["PROCESSOR"]
    IN  IF ext \in ContainerExts THEN ReadContainer(fs0, atr, box, epoch)
        ELSE IF ext \in ImageExts THEN ReadImage(fs0, box)
        ELSE IF processor = "isce" THEN ReadIsce(fs0, ext, box)
        ELSE IF processor \in {"roipac", "gamma"} THEN ReadRoipac(fs0, ext, box)
        ELSE ReturnBare("zero", 521)

\* lines 414-521 with the attributes of lines 404-412
ReadData(fs0, u, box, epoch) ==
    IF ~Ok(u) THEN u ELSE Dispatch(fs0, u.atr, box, epoch)

\* lines 407-521 with the attributes of line 404
ReadWith(fs0, r, box, epoch, subsetBound) ==
    IF ~Ok(r) THEN r
    ELSE ReadData(fs0, UpdateIfSubset(r, box, subsetBound), box, epoch)

read(fs0, box, epoch, subsetBound) ==
    ReadWith(fs0, read_attributes(fs0), box, epoch, subsetBound)

-----------------------------------------------------------------------------
(* Handles.  A handle is named by the variable that holds it.  h5f (line   *)
(* 59) and h5file (line 416) are closed by the close() of lines 79 and 445, *)
(* which an exception skips; f (line 160) is never closed by the code: it  *)
(* stays open while a raised exception keeps the frame of read_gamma_par,  *)
(* and after a normal return until the runtime collects it (collected).    *)
(* np.loadtxt, ET.parse and np.fromfile close what they open.              *)

\* f = open(File) of read_gamma_par at the end of the enclosing call
ParHandles(parsed, collected) ==
    IF Ok(parsed) /\ collected THEN {} ELSE {"f"}

\* the handles read_attributes leaves open
AttributeHandles(fs0, r, collected) ==
    IF ~fs0.exists THEN {}
    ELSE IF Scheme(fs0) = "container" THEN (IF Ok(r) THEN {} ELSE {"h5f"})
    ELSE IF Scheme(fs0) \in {"par", "stempar"} THEN ParHandles(r, collected)
    ELSE {}

\* h5file of read: open when result, the outcome of the call, is an
\* exception raised between the open of line 416 and the close of line 445
ContainerHandles(fs0, result) ==
    IF Ext(fs0) \in ContainerExts /\ result.status = "raise"
         /\ result.line \in 416..445
    THEN {"h5file"} ELSE {}

\* the handles read leaves open; r is the outcome of line 404
ReadHandles(fs0, r, result, collected) ==
    AttributeHandles(fs0, r, collected) \cup ContainerHandles(fs0, result)

\* whether the runtime has collected an unreferenced handle when the call
\* ends: a choice only for a call that runs read_gamma_par
Collections(fs0) ==
    IF Scheme(fs0) \in {"par", "stempar"} THEN BOOLEAN ELSE {TRUE}

-----------------------------------------------------------------------------
(* The inputs of a call: the files the path names, and the arguments *)

FS(ex, e, rsc, xml, par, sp, w, l, dk, su, g, ep, rd, n) ==
    [exists |-> ex, ext |-> e, rsc |-> rsc, xml |-> xml, par |-> par,
     stempar |-> sp, W |-> w, L |-> l, dimKeys |-> dk,
     sideUnit |-> su, groups |-> g, epochs |-> ep,
     refDate |-> rd, nbytes |-> n, parForm |-> "full"]

Args(box, epoch, subsetBound) ==
    [box |-> box, epoch |-> epoch, subsetBound |-> subsetBound]

NoArgs == Args(NoBox, "", FALSE)

NoFS == FS(FALSE, "", FALSE, FALSE, FALSE, FALSE, 1, 1, FALSE, FALSE,
           << >>, {}, FALSE, 0)

Dims == 1..MaxDim

FlatExts == {".unw", ".cor", ".hgt", ".dem", ".int", ".trans", ".mli",
             ".slc", ".flat"}

\* ".xyz" stands for every extension the reader does not know
SidecarExts == FlatExts \cup {".xyz", ".png", ".UNW"}

\* "junk" and "misc" stand for every group name the reader does not know
GroupNames == {"interferograms", "coherence", "timeseries", "wrapped",
               "velocity", "dem", "junk", "misc"}

\* the listings h5f.keys() of at most MaxGroups distinct groups
GroupSeqs(names) ==
    UNION { { g \in [1..n -> names] :
                \A i, j \in 1..n : i # j => g[i] # g[j] } : n \in 0..MaxGroups }

EpochSets == { {}, {"e1"}, {"e2", "e1"} }

EpochArgs == {"", "e1", "e3"}

\* windows with a positive extent, inside the raster or overhanging it by one
Boxes ==
    { b \in (0..MaxDim) \X (0..MaxDim) \X (1..(MaxDim + 1)) \X (1..(MaxDim + 1)) :
        b[1] < b[3] /\ b[2] < b[4] }

BoxArgs == {NoBox} \cup Boxes

\* the box arguments tried on a raster: no box, and the windows that lie
\* inside it or overhang it by one
BoxArgsOf(fs0) ==
    { b \in BoxArgs : b # NoBox => (b[3] <= fs0.W + 1 /\ b[4] <= fs0.L + 1) }

\* the inputs of read_attributes: a flat file with any set of sidecars
AttrSidecarInputs ==
    { FS(ex, e, rsc, xml, par, sp, MaxDim, l, dk, su, << >>, {}, FALSE, 0) :
        ex \in BOOLEAN, e \in SidecarExts, rsc \in BOOLEAN, xml \in BOOLEAN,
        par \in BOOLEAN, sp \in BOOLEAN, l \in Dims,
        dk \in BOOLEAN, su \in BOOLEAN }

\* the inputs of read_attributes: a container, with or without a sidecar
AttrContainerInputs ==
    { FS(TRUE, e, rsc, FALSE, FALSE, FALSE, MaxDim, MaxDim, dk, su,
         g, ep, rd, 0) :
        e \in {".h5", ".he5", ".H5"}, rsc \in BOOLEAN,
        dk \in BOOLEAN, su \in BOOLEAN,
        g \in GroupSeqs(GroupNames), ep \in EpochSets, rd \in BOOLEAN }

ParForms == {"full", "no_samples", "no_lines", "bare", "short"}

\* the inputs of read_gamma_par, and of read_attributes on a .par sidecar
ParInputs ==
    { [FS(TRUE, e, FALSE, FALSE, par, ~par, w, l, TRUE, su,
          << >>, {}, FALSE, 0) EXCEPT !.parForm = pf] :
        e \in {".mli", ".slc"}, par \in BOOLEAN, w \in Dims, l \in Dims,
        su \in BOOLEAN, pf \in ParForms }

\* bytes per pixel of a complete file of each flat-binary layout
LayoutBytes == {2, 4, 8}

\* the sizes of a raster file: complete for some layout, one byte short,
\* one row short, one row long
FileSizes(w, l) ==
    UNION { { bpp * w * l, bpp * w * l - 1, bpp * w * (l - 1),
              bpp * w * (l + 1) } : bpp \in LayoutBytes }

\* the inputs of read: a flat binary with one sidecar
ReadFlatInputs ==
    UNION { { FS(TRUE, e, sc = "rsc", sc = "xml", sc = "par", FALSE,
                 wl[1], wl[2], TRUE, FALSE, << >>, {}, FALSE, n) :
                e \in FlatExts \cup {".xyz"}, sc \in {"rsc", "xml", "par"},
                n \in FileSizes(wl[1], wl[2]) } : wl \in Dims \X Dims }

\* the inputs of read: a flat binary whose sidecar lacks the dimension keys
ReadMalformedInputs ==
    { FS(TRUE, e, TRUE, FALSE, FALSE, FALSE, MaxDim, MaxDim, FALSE, FALSE,
         << >>, {}, FALSE, 8 * MaxDim * MaxDim) : e \in {".unw", ".dem"} }

\* the inputs of read: a container
ReadContainerInputs ==
    { FS(TRUE, ".h5", FALSE, FALSE, FALSE, FALSE, w, MaxDim, TRUE, FALSE,
         g, ep, TRUE, 0) :
        w \in Dims, ep \in EpochSets,
        g \in GroupSeqs({"interferograms", "timeseries", "velocity"}) }

\* the inputs of read: a browsable image
ReadImageInputs ==
    { FS(TRUE, e, rsc, xml, FALSE, FALSE, w, l, TRUE, FALSE,
         << >>, {}, FALSE, 0) :
        e \in {".png", ".jpg"}, rsc \in BOOLEAN, xml \in BOOLEAN,
        w \in Dims, l \in Dims }

Decoders == {"read_float32", "read_complex_float32", "read_real_float32",
             "read_complex_int16", "read_real_int16"}

\* the decoders that take a box
BoxDecoders == {"read_float32", "read_complex_int16"}

Decode(f, fs0, box) ==
    IF f = "read_float32" THEN read_float32(fs0, box)
    ELSE IF f = "read_complex_float32" THEN read_complex_float32(fs0, 0)
    ELSE IF f = "read_real_float32" THEN read_real_float32(fs0)
    ELSE IF f = "read_complex_int16" THEN read_complex_int16(fs0, box)
    ELSE read_real_int16(fs0)

-----------------------------------------------------------------------------
(* The state machine: a caller makes one call at a time *)

Init ==
    /\ pc = "idle"
    /\ fn = "none"
    /\ fs = NoFS
    /\ args = NoArgs
    /\ out = NoOut
    /\ handles = {}

CallReadAttributes ==
    /\ pc = "idle"
    /\ \E f \in AttrSidecarInputs \cup AttrContainerInputs \cup ParInputs :
       \E collected \in Collections(f) :
         /\ fs' = f
         /\ out' = read_attributes(f)
         /\ handles' = AttributeHandles(f, read_attributes(f), collected)
    /\ fn' = "read_attributes"
    /\ args' = NoArgs
    /\ pc' = "done"

CallReadGammaPar ==
    /\ pc = "idle"
    /\ \E f \in ParInputs, collected \in BOOLEAN :
         /\ fs' = f
         /\ out' = read_gamma_par(f)
         /\ handles' = ParHandles(read_gamma_par(f), collected)
    /\ fn' = "read_gamma_par"
    /\ args' = NoArgs
    /\ pc' = "done"

CallDecoder ==
    /\ pc = "idle"
    /\ \E d \in Decoders, f \in ReadFlatInputs \cup ReadMalformedInputs :
       \E b \in BoxArgsOf(f), collected \in Collections(f) :
         /\ f.rsc
         /\ Ext(f) = ".unw"
         /\ b # NoBox => d \in BoxDecoders
         /\ fn' = d
         /\ fs' = f
         /\ args' = Args(b, "", FALSE)
         /\ out' = Decode(d, f, b)
         /\ handles' = AttributeHandles(f, read_attributes(f), collected)
    /\ pc' = "done"

CallRead ==
    /\ pc = "idle"
    /\ \E f \in ReadFlatInputs \cup ReadMalformedInputs
                  \cup ReadContainerInputs \cup ReadImageInputs,
          e \in EpochArgs, sb \in BOOLEAN :
       \E b \in BoxArgsOf(f), collected \in Collections(f) :
         /\ Ext(f) \notin ContainerExts => e = ""
         /\ fs' = f
         /\ args' = Args(b, e, sb)
         /\ out' = read(f, b, e, sb)
         /\ handles' = ReadHandles(f, read_attributes(f), out', collected)
    /\ fn' = "read"
    /\ pc' = "done"

\* the caller takes the result and drops what the call left behind; nothing
\* is kept between calls
Finish ==
    /\ pc = "done"
    /\ pc' = "idle"
    /\ fn' = "none"
    /\ fs' = NoFS
    /\ args' = NoArgs
    /\ out' = NoOut
    /\ handles' = {}

Next ==
    CallReadAttributes \/ CallReadGammaPar \/ CallDecoder \/ CallRead \/ Finish

Spec == Init /\ [][Next]_vars

-----------------------------------------------------------------------------
(* Vocabulary of the properties *)

Returned(f) == pc = "done" /\ fn = f

IsContainerPath == Ext(fs) \in {".h5", ".he5"}

\* the Pixel Window invariant
ValidWindow(b, w, l) ==
    /\ 0 <= b[1] /\ b[1] < b[3] /\ b[3] <= w
    /\ 0 <= b[2] /\ b[2] < b[4] /\ b[4] <= l

\* a flat binary of a supported (processor, extension) pair
SupportedFlat ==
    \/ fs.xml /\ ~fs.rsc /\ Ext(fs) \in {".flat", ".cor", ".slc"}
    \/ (fs.rsc \/ (fs.par /\ ~fs.xml))
         /\ Ext(fs) \in {".unw", ".cor", ".hgt", ".dem", ".int", ".trans",
                         ".mli", ".slc"}

\* the processor read detects for the path (line 405)
Processor == read_attributes(fs).atr["PROCESSOR"]

\* the window covers fewer pixels than the full extent
SmallerWindow ==
    /\ args.box # NoBox
    /\ (args.box[3] - args.box[1]) * (args.box[4] - args.box[2]) < fs.W * fs.L

-----------------------------------------------------------------------------
(* C1 *)

ClaimedProcessor ==
    IF IsContainerPath THEN "pysar"
    ELSE IF fs.rsc THEN "roipac"
    ELSE IF fs.xml THEN "isce"
    ELSE IF fs.par THEN "gamma"
    ELSE IF fs.stempar THEN "gamma"
    ELSE "none"

\* C1: read_attributes on an existing path picks the metadata scheme by fixed
\* priority: a container extension gives PROCESSOR pysar whatever sidecars
\* exist; otherwise the first existing of <path>.rsc, <path>.xml, <path>.par,
\* <stem>.par gives roipac, isce, gamma, gamma; with no container extension
\* and no sidecar the call fails at the final else (sys.exit, line 105) and
\* returns no mapping.
C1_SchemePriority ==
    (Returned("read_attributes") /\ fs.exists) =>
        /\ Ok(out) => out.atr["PROCESSOR"] = ClaimedProcessor
        /\ (ClaimedProcessor \notin {"pysar", "none"}
               /\ fs.dimKeys /\ fs.parForm = "full") => Ok(out)
        /\ ClaimedProcessor = "none" =>
              /\ out.status = "raise" /\ out.etype = "SystemExit"
              /\ out.line = 105
              /\ out.atr = EmptyMap

C1_Witness ==
    /\ Returned("read_attributes") /\ fs.exists
    /\ ~IsContainerPath /\ fs.rsc /\ fs.xml /\ fs.par
    /\ Ok(out) /\ out.atr["PROCESSOR"] = "roipac"

-----------------------------------------------------------------------------
(* C2 *)

ClaimedUnit(fileType) ==
    CASE fileType \in {"interferograms", "wrapped", ".unw", ".int", ".flat"}
            -> "radian"
      [] fileType \in {"timeseries", "dem", ".dem", ".hgt"} -> "m"
      [] fileType = "velocity" -> "m/yr"
      [] OTHER -> "1"

\* C2: in every mapping read_attributes returns, UNIT is the table value of
\* FILE_TYPE (radian, m, m/yr, else 1); a UNIT supplied by the sidecar or the
\* container attributes never survives.
C2_UnitFromFileType ==
    (Returned("read_attributes") /\ Ok(out)) =>
        /\ HasKey(out.atr, "UNIT") /\ HasKey(out.atr, "FILE_TYPE")
        /\ out.atr["UNIT"] = ClaimedUnit(out.atr["FILE_TYPE"])

C2_Witness ==
    /\ Returned("read_attributes") /\ Ok(out)
    /\ fs.sideUnit
    /\ out.atr["FILE_TYPE"] = ".unw" /\ out.atr["UNIT"] = "radian"

-----------------------------------------------------------------------------
(* C3 *)

RequiredKeys == {"WIDTH", "FILE_LENGTH", "PROCESSOR", "FILE_TYPE", "UNIT"}

Normalized(atr) ==
    /\ RequiredKeys \subseteq DOMAIN atr
    /\ IsNum(atr["WIDTH"]) /\ IntOf(atr["WIDTH"]) > 0
    /\ IsNum(atr["FILE_LENGTH"]) /\ IntOf(atr["FILE_LENGTH"]) > 0
    /\ atr["PROCESSOR"] \in {"pysar", "roipac", "isce", "gamma"}

\* C3: every mapping returned by read_attributes or by read (container,
\* browsable image, flat binary) for an input whose metadata carries the
\* dimensions contains WIDTH, FILE_LENGTH, PROCESSOR, FILE_TYPE and UNIT, with
\* positive integer dimensions and a supported processor.
C3_RequiredKeys ==
    ((Returned("read_attributes") \/ Returned("read")) /\ Ok(out)
        /\ fs.dimKeys) => Normalized(out.atr)

-----------------------------------------------------------------------------
(* C4 *)

FullRead == read(fs, NoBox, args.epoch, args.subsetBound)

SliceOfFull(i) ==
    Slice(FullRead.planes[i].a,
          args.box[2], args.box[4], args.box[1], args.box[3])

\* C4: for a supported flat binary that read decodes without a window, read
\* with any valid window returns, plane by plane, the sub-array
\* [y0:y1, x0:x1] of the full decode, of shape (y1-y0, x1-x0).
C4_WindowIsSlice ==
    (Returned("read") /\ SupportedFlat /\ args.box # NoBox
        /\ ValidWindow(args.box, fs.W, fs.L) /\ Ok(FullRead)) =>
        /\ Ok(out)
        /\ Len(out.planes) = Len(FullRead.planes)
        /\ \A i \in 1..Len(out.planes) :
             /\ out.planes[i].kind = FullRead.planes[i].kind
             /\ out.planes[i].a = SliceOfFull(i)
             /\ Rows(out.planes[i].a) = args.box[4] - args.box[2]
             /\ Cols(out.planes[i].a) = args.box[3] - args.box[1]

-----------------------------------------------------------------------------
(* C5 *)

-----------------------------------------------------------------------------
(* C6 *)

\* the pairs whose declared output kind is amplitude_phase
AmplitudePhasePair ==
    /\ Processor \in {"roipac", "gamma"}
    /\ Ext(fs) \in {".unw", ".cor", ".hgt", ".int"}

TransPair ==
    /\ Processor \in {"roipac", "gamma"}
    /\ Ext(fs) = ".trans"

\* C6 as stated: read returns two planes exactly for amplitude_phase outputs
\* and for .trans, and one plane for every other supported input.
C6_TwoPlanesForAmplitudePhase ==
    (Returned("read") /\ Ok(out) /\ (SupportedFlat \/ IsContainerPath)) =>
        Len(out.planes) = IF AmplitudePhasePair \/ TransPair THEN 2 ELSE 1

\* C6 amended: read returns two planes exactly for a .trans file of the
\* roipac/gamma chain; every other input it decodes, the amplitude_phase
\* layouts .unw/.cor/.hgt/.int included, yields exactly one plane.
C6_TwoPlanesOnlyForTrans ==
    (Returned("read") /\ Ok(out)) =>
        Len(out.planes) = IF TransPair THEN 2 ELSE 1

C6_Witness ==
    /\ Returned("read") /\ Ok(out) /\ TransPair
    /\ args.box # NoBox /\ Len(out.planes) = 2

-----------------------------------------------------------------------------
(* C7 *)

\* the output kind the registry of the specification declares
DeclaredKinds ==
    LET p == Processor
        e == Ext(fs)
    IN  CASE p = "isce" /\ e \in {".flat", ".slc"} -> <<"complex64">>
          [] p = "isce" /\ e = ".cor" -> <<"float32">>
          [] p # "isce" /\ e \in {".unw", ".cor", ".hgt"}
                -> <<"float32", "float32">>
          [] p # "isce" /\ e = ".int" -> <<"hypot", "arctan2">>
          [] p # "isce" /\ e = ".dem" -> <<"int16">>
          [] p # "isce" /\ e = ".slc" -> <<"complex_int16">>
          [] p # "isce" /\ e = ".mli" -> <<"float32">>
          [] OTHER -> << >>

\* the output kind read has
ReturnedKinds == [i \in 1..Len(out.planes) |-> out.planes[i].kind]

\* C7 as stated: the data read returns has the output kind of the registry:
\* complex for isce .flat/.slc, real for isce .cor, amplitude+phase for
\* .unw/.cor/.hgt and .int, int16 for .dem, complex of int16 pairs for .slc,
\* real for .mli.
C7_DeclaredOutputKind ==
    (Returned("read") /\ Ok(out) /\ SupportedFlat /\ Ext(fs) # ".trans") =>
        ReturnedKinds = DeclaredKinds

\* the kinds read returns
ActualKinds ==
    LET p == Processor
        e == Ext(fs)
    IN  CASE p = "isce" /\ e = ".flat" -> <<"arctan2">>
          [] p = "isce" /\ e = ".slc" -> <<"hypot">>
          [] p = "isce" /\ e = ".cor" -> <<"float32">>
          [] p # "isce" /\ e \in {".unw", ".cor", ".hgt"} -> <<"float32">>
          [] p # "isce" /\ e = ".int" -> <<"arctan2">>
          [] p # "isce" /\ e = ".dem" -> <<"int16">>
          [] p # "isce" /\ e = ".slc" -> <<"complex_int16">>
          [] p # "isce" /\ e = ".mli" -> <<"float32">>
          [] OTHER -> << >>

\* C7 amended: read yields one real plane where the registry declares complex
\* or amplitude+phase: the phase (arctan2) of isce .flat and of .int, the
\* amplitude (hypot) of isce .slc, and the second (right-half, phase) plane
\* of .unw/.cor/.hgt; isce .cor and .mli yield a real plane, .dem 16-bit
\* integers, roipac/gamma .slc complex values of int16 pairs.
C7_ActualOutputKind ==
    (Returned("read") /\ Ok(out) /\ SupportedFlat /\ Ext(fs) # ".trans") =>
        /\ ReturnedKinds = ActualKinds
        /\ (Processor # "isce" /\ Ext(fs) \in {".unw", ".cor", ".hgt"}
              /\ args.box = NoBox) =>
                out.planes[1].a[1][1] = << fs.W >>

C7_Witness ==
    /\ Returned("read") /\ Ok(out)
    /\ Processor = "isce" /\ Ext(fs) = ".flat"
    /\ ReturnedKinds = <<"arctan2">>

-----------------------------------------------------------------------------
(* C8 *)

\* C8: a call with a window that violates the Pixel Window invariant fails
\* and returns no array, in read (flat binary, container) and in the
\* decoders that take a window.
C8_InvalidWindowFails ==
    (pc = "done" /\ fn \in {"read"} \cup BoxDecoders
        /\ (SupportedFlat \/ IsContainerPath)
        /\ fs.dimKeys /\ args.box # NoBox
        /\ ~ValidWindow(args.box, fs.W, fs.L)) =>
        /\ out.status = "raise"
        /\ out.planes = NoPlanes

-----------------------------------------------------------------------------
(* C9 *)

\* bytes of one row of the declared layout
RowBytes ==
    CASE fn \in {"read_float32", "read_complex_float32"} -> 8 * fs.W
      [] fn \in {"read_real_float32", "read_complex_int16"} -> 4 * fs.W
      [] fn = "read_real_int16" -> 2 * fs.W
      [] fn = "read" /\ Processor = "isce" ->
            (IF Ext(fs) = ".cor" THEN 4 * fs.W ELSE 8 * fs.W)
      [] fn = "read" /\ Processor # "isce" ->
            (CASE Ext(fs) \in {".unw", ".cor", ".hgt", ".trans", ".int"}
                     -> 8 * fs.W
               [] Ext(fs) \in {".mli", ".slc"} -> 4 * fs.W
               [] OTHER -> 2 * fs.W)

\* bytes of the declared extent, or of the rows up to y1 of a window
NeededBytes ==
    RowBytes * (IF args.box = NoBox THEN fs.L ELSE args.box[4])

DecodeLines == {240, 275, 295, 321, 354}

\* C9: when the raster holds fewer bytes than the declared extent, or than
\* the rows up to y1 of a valid window, read and every flat-binary decoder
\* fail and return no array; the failure is the ValueError of the decoder's
\* reshape unless read has failed before it reaches the decoder.
C9_TruncatedFileFails ==
    (pc = "done" /\ fn \in {"read"} \cup Decoders /\ SupportedFlat
        /\ fs.dimKeys
        /\ (args.box = NoBox \/ ValidWindow(args.box, fs.W, fs.L))
        /\ fs.nbytes < NeededBytes) =>
        /\ out.status = "raise"
        /\ out.planes = NoPlanes
        /\ out.atr = EmptyMap
        /\ (fn # "read" \/ ~SmallerWindow) =>
              (out.etype = "ValueError" /\ out.line \in DecodeLines)

C9_Witness ==
    /\ Returned("read_float32")
    /\ args.box # NoBox /\ ValidWindow(args.box, fs.W, fs.L)
    /\ args.box[4] < fs.L
    /\ fs.nbytes < NeededBytes /\ fs.nbytes > 0
    /\ out.status = "raise" /\ out.etype = "ValueError" /\ out.line = 240

-----------------------------------------------------------------------------
(* C10 *)

\* the call reaches the container branch of read (line 414)
ReachesContainerBranch ==
    /\ IsContainerPath
    /\ Ok(read_attributes(fs))
    /\ Ok(UpdateIfSubset(read_attributes(fs), args.box, args.subsetBound))

\* C10: for a container whose FILE_TYPE is a multi-epoch group, read with an
\* epoch label the group does not hold fails where the absence is detected
\* (the membership test of lines 424-428), before any dataset is looked up
\* or indexed, and returns no data.
C10_EpochNotFound ==
    (Returned("read") /\ ReachesContainerBranch
        /\ read_attributes(fs).atr["FILE_TYPE"] \in EpochGroups
        /\ args.epoch \notin fs.epochs) =>
        /\ out.status = "raise"
        /\ out.line \in 424..428
        /\ out.planes = NoPlanes

-----------------------------------------------------------------------------
(* C11 *)

\* a flat binary whose (processor, extension) pair no branch of read decodes
UnsupportedFlat ==
    /\ ~IsContainerPath /\ Ext(fs) \notin ImageExts
    /\ Ok(read_attributes(fs))
    /\ ~SupportedFlat

UnsupportedLines == {466, 520}

-----------------------------------------------------------------------------
(* C12 *)

\* C12: when a call of read_attributes (and so of the sidecar parser it
\* runs), of a decoder or of read ends, by a return or by an exception, no
\* handle the call opened is still open.
C12_HandlesClosed == pc = "done" => handles = {}

-----------------------------------------------------------------------------
(* C13 *)

\* the names the container lists
Listed == { fs.groups[i] : i \in 1..Len(fs.groups) }

KnownGroups == MemberGroups \cup SingleGroups

\* a call of read_attributes on a container that lists at least one group
ContainerCall ==
    Returned("read_attributes") /\ IsContainerPath /\ Len(fs.groups) > 0

\* the group of the stated preference, when one of the three is listed
PreferredGroup ==
    IF "interferograms" \in Listed THEN "interferograms"
    ELSE IF "coherence" \in Listed THEN "coherence"
    ELSE "timeseries"

HasPreferred == Listed \cap {"interferograms", "coherence", "timeseries"} # {}

\* the selected group holds what the reader takes from it: a multi-member
\* group has a first member, a time series without ref_date has a member
GroupReadable(g) ==
    /\ g \in MemberGroups => fs.epochs # {}
    /\ (g = "timeseries" /\ ~fs.refDate) => fs.epochs # {}

\* C13 as stated: the group is selected by the preference interferograms,
\* coherence, timeseries, else it is the sole remaining group, and
\* FILE_TYPE is its name; the call fails without a mapping when no known
\* name is listed and more than one group is.
C13_SoleRemainingGroup ==
    ContainerCall =>
        /\ (HasPreferred /\ Ok(out)) => out.atr["FILE_TYPE"] = PreferredGroup
        /\ (~HasPreferred /\ Len(fs.groups) = 1
               /\ GroupReadable(fs.groups[1])) =>
              (Ok(out) /\ out.atr["FILE_TYPE"] = fs.groups[1])
        /\ (Listed \cap KnownGroups = {} /\ Len(fs.groups) > 1) =>
              (out.status = "raise" /\ out.atr = EmptyMap)

\* the group the code selects: the preferred one, else the first listed
FirstListedGroup == IF HasPreferred THEN PreferredGroup ELSE fs.groups[1]

\* C13, amended: the group is selected by the preference interferograms,
\* coherence, timeseries whatever the order of the listing, else it is the
\* first listed group; when its name is a known one the call returns with
\* FILE_TYPE set to it, and when it is not, even if it is the only group,
\* the call fails (line 71) without a mapping.
C13_FirstListedGroup ==
    ContainerCall =>
        IF FirstListedGroup \in KnownGroups
        THEN /\ Ok(out) => out.atr["FILE_TYPE"] = FirstListedGroup
             /\ GroupReadable(FirstListedGroup) => Ok(out)
        ELSE /\ out.status = "raise" /\ out.line = 71
             /\ out.atr = EmptyMap

C13_Witness ==
    /\ ContainerCall
    /\ fs.groups = <<"coherence", "interferograms">>
    /\ Ok(out) /\ out.atr["FILE_TYPE"] = "interferograms"

-----------------------------------------------------------------------------
(* C14 *)

\* a call of the parser on a file of at least two lines
ParserCall == Returned("read_gamma_par") /\ fs.parForm # "short"

\* the file holds both dimension lines, their keys spelled with the colon
BothEntries == fs.dimKeys /\ fs.parForm = "full"

\* the entries every mapping of the parser holds besides the keys: the
\* two header lines, the comment line and the one-token line leave no
\* entry, values lose their comment suffix
ParsedLines(d) ==
    /\ {"Gamma", "#", "solo"} \cap DOMAIN d = {}
    /\ d["WIDTH"] = Str(fs.W) /\ d["FILE_LENGTH"] = Str(fs.L)

\* C14 as stated: the first two lines are skipped; every other non-comment
\* line of two or more tokens is stored under token[0] without its trailing
\* colon; WIDTH and FILE_LENGTH are the values of the range_samples and
\* azimuth_lines entries; the call fails when either is absent.
C14_ColonStripped ==
    ParserCall =>
        IF BothEntries
        THEN /\ Ok(out) /\ ParsedLines(out.atr)
             /\ {"range_samples", "azimuth_lines", "sensor"}
                    \subseteq DOMAIN out.atr
             /\ out.atr["range_samples"] = Str(fs.W)
             /\ out.atr["azimuth_lines"] = Str(fs.L)
             /\ out.atr["sensor"] = "ERS"
        ELSE fs.parForm # "bare" => out.status = "raise"

\* C14, amended: the first two lines are skipped; every other non-comment
\* line of two or more tokens is stored under token[0] as written, colon
\* included, with token[1] cut at '#' as the value; WIDTH and FILE_LENGTH
\* are the values of the entries range_samples: and azimuth_lines:; when
\* either entry is absent, or its key is written without the colon, the
\* call fails with the KeyError of line 169 or 170 and returns no mapping.
C14_KeysVerbatim ==
    ParserCall =>
        IF BothEntries
        THEN /\ Ok(out) /\ ParsedLines(out.atr)
             /\ {"range_samples:", "azimuth_lines:", "sensor:"}
                    \subseteq DOMAIN out.atr
             /\ {"range_samples", "azimuth_lines", "sensor", "title:"}
                    \cap DOMAIN out.atr = {}
             /\ out.atr["range_samples:"] = Str(fs.W)
             /\ out.atr["azimuth_lines:"] = Str(fs.L)
             /\ out.atr["sensor:"] = "ERS"
        ELSE /\ out.status = "raise" /\ out.etype = "KeyError"
             /\ out.line = (IF fs.parForm = "no_lines" THEN 170 ELSE 169)
             /\ out.atr = EmptyMap

C14_Witness ==
    /\ ParserCall /\ BothEntries
    /\ Ok(out) /\ out.atr["FILE_LENGTH"] = Str(fs.L)
    /\ fs.L = MaxDim

-----------------------------------------------------------------------------
(* C15 *)

\* the same raster bytes with the metadata in <path>.rsc instead of
\* <path>.par, so that read_attributes resolves roipac instead of gamma
RoipacTwin == [fs EXCEPT !.rsc = TRUE, !.par = FALSE]

\* a call of read on a flat binary that resolves to PROCESSOR gamma
GammaRead ==
    /\ Returned("read") /\ ~IsContainerPath /\ Ext(fs) \notin ImageExts
    /\ Ok(read_attributes(fs)) /\ Processor = "gamma"

\* C15: read decodes a flat binary tagged gamma exactly as the same bytes
\* tagged roipac, for every extension and window: the same planes, of the
\* same layout, or the same failure at the same line.
C15_GammaAsRoipac ==
    GammaRead =>
        LET twin == read(RoipacTwin, args.box, args.epoch, args.subsetBound)
        IN  /\ read_attributes(RoipacTwin).atr["PROCESSOR"] = "roipac"
            /\ twin.status = out.status
            /\ twin.etype = out.etype /\ twin.line = out.line
            /\ twin.planes = out.planes

C15_Witness ==
    /\ GammaRead /\ Ext(fs) = ".unw" /\ fs.W = MaxDim
    /\ Ok(out) /\ Len(out.planes) = 1
    /\ out.planes[1].kind = "float32"
    /\ out.planes[1].a[1][1] = << fs.W >>

====
